---- MODULE Spec2Model ----
(***************************************************************************)
(* Model of the stock-data synchronisation of PPRPPR/quant:                *)
(*   data_fetcher.py  DataFetcher       (retried provider fetches,         *)
(*                                       update_all_data)                  *)
(*   database.py      StockDatabase     (the three tables and their saves) *)
(*   auto_updater.py  StockDataUpdater  (download_all_stocks_data)         *)
(*   main.py          main              (the command-line download)        *)
(* One run is one invocation of download_all_stocks_data (full or          *)
(* incremental) or of main().  A run is cut into steps at the provider     *)
(* calls: one action is one attempt of a retried fetch together with all   *)
(* the code that runs until the next provider call (persistence, counters, *)
(* the return).                                                            *)
(***************************************************************************)
EXTENDS Integers, Sequences, FiniteSets, TLC

-----------------------------------------------------------------------------
(* Bounds of the model *)

\* Days of the modelled calendar: the run takes place on one of 1..MaxDay.
MaxDay == 2

\* The longest catalog of the runs that pace their loop (SpecBatch).
MaxCatalog == 11

\* The most distinct concept names the provider returns in the runs that
\* look at the cap on concepts (SpecConcepts).
MaxNames == 12

\* The most rows of a feed in the merges of catalog names (SpecNames).
MaxRows == 2

\* The schedule driver (SpecSchedule): the polls of a day, and the last
\* poll followed.
PollsPerDay == 3
MaxClock == 8

(* Program constants *)

\* @retry(Exception, tries=3, delay=2, backoff=2)
tries == 3
delay == 2
backoff == 2
\* DataFetcher.__init__(db, max_retries=3, retry_delay=5)
DefaultMaxRetries == 3
DefaultRetryDelay == 5
\* start_date = "19900101"
HistoryFloor == 19900101
\* if (i + 1) % 5 == 0 and i + 1 < total_stocks: time.sleep(3)
BatchSize == 5
\* the column list of the INSERT statement of save_stock_prices has 8 names
InsertColumns == 8

-----------------------------------------------------------------------------
(* Calendar: dates are day ordinals; the code handles them as text.        *)

\* strftime('%Y%m%d') of day ordinal d, as the number the digits spell.
\* Day 1 is 2023-12-30, so the calendar crosses a month and a year boundary.
\* Text of equal width compares as these numbers do.
Ymd(d) == IF d <= 2 THEN 20231229 + d ELSE 20240100 + (d - 2)

\* datetime.strptime(text, '%Y-%m-%d'): the day ordinal of a stored date.
Strptime(text) == CHOOSE d \in 1..(MaxDay + 1) : Ymd(d) = text

Days == 1..MaxDay

-----------------------------------------------------------------------------
(* Data *)

Codes == {"A", "B", "C"}

\* What ak.stock_info_a_code_name() may answer: it raises, it is empty, or
\* it lists codes.
PrimaryFeeds ==
    { [kind |-> "raise", codes |-> << >>],
      [kind |-> "empty", codes |-> << >>],
      [kind |-> "rows",  codes |-> <<"A", "B", "C">>],
      [kind |-> "rows",  codes |-> <<"A", "B">>] }

\* What an exchange feed (stock_info_sh_name_code, stock_info_sz_name_code)
\* may answer; its rows may repeat a code.
EnrichmentFeeds ==
    { [kind |-> "raise", codes |-> << >>],
      [kind |-> "empty", codes |-> << >>],
      [kind |-> "rows",  codes |-> <<"A">>],
      [kind |-> "rows",  codes |-> <<"B", "B">>] }

RequiredColumns == <<"code", "date", "open", "high", "low", "close", "volume">>
OptionalColumns == <<"amount", "pct_change", "turnover_rate">>

\* The columns ak.stock_zh_a_hist may carry, by their names after the
\* renaming of column_mapping ('code' is added by the fetcher).
ProviderColumnSets ==
    { {"date", "open", "high", "low", "close", "volume", "amount"},
      {"date", "open", "high", "low", "close", "volume"},
      {"date", "open", "high", "low", "close", "volume",
       "amount", "pct_change", "turnover_rate"} }

\* The price the provider quotes in the run (the stored rows carry 1).
Quotes == {2}

\* What ak.stock_zh_a_hist may answer.
ProviderPrices ==
    { [kind |-> "raise", cols |-> {}, v |-> 0],
      [kind |-> "empty", cols |-> {}, v |-> 0] }
    \cup { [kind |-> "rows", cols |-> c, v |-> v] :
             c \in ProviderColumnSets, v \in Quotes }

\* What one concept call (stock_board_concept_name_ths,
\* stock_board_concept_cons_ths) may answer.  col is the column the names
\* are under: "known" for one of the three names the fetcher looks for,
\* "other" for none of them.  "unhashable" stands for a names column whose
\* cells cannot be put in a set.
ProviderConcepts ==
    { [kind |-> "raise", col |-> "known", names |-> << >>],
      [kind |-> "empty", col |-> "known", names |-> << >>],
      [kind |-> "rows",  col |-> "known", names |-> <<"x", "z", "x">>],
      [kind |-> "rows",  col |-> "other", names |-> <<"y">>],
      [kind |-> "unhashable", col |-> "known", names |-> << >>] }

Range(s) == { s[k] : k \in 1..Len(s) }

SelectSeqIn(s, S) == SelectSeq(s, LAMBDA x : x \in S)

-----------------------------------------------------------------------------
(* StockDatabase: the tables and the three saves.  A save answers the      *)
(* table it leaves and whether it raised.                                   *)

HasDuplicates(s) == \E a, b \in 1..Len(s) : a /= b /\ s[a] = s[b]

\* save_stock_info without the DELETE: the rows are written over what the
\* table holds.
save_stock_info_append(table, stock_data) ==
    IF HasDuplicates(stock_data)
    THEN [raised |-> TRUE,  table |-> table]
    ELSE [raised |-> FALSE, table |-> table \cup Range(stock_data)]

\* save_stock_info: DELETE FROM stock_info and commit, then append the rows;
\* code is the PRIMARY KEY, so a list that repeats a code makes the insert
\* raise, after the delete was committed.
save_stock_info(table, stock_data) ==
    IF HasDuplicates(stock_data)
    THEN [raised |-> TRUE,  table |-> {}]
    ELSE [raised |-> FALSE, table |-> Range(stock_data)]

\* The value a row of the batch carries in column col.
CellValue(price_data, day, col) ==
    CASE col = "code" -> price_data.code
      [] col = "date" -> day
      [] OTHER        -> price_data.v

\* save_stock_prices with INSERT OR IGNORE: a row whose key is stored is
\* left as it was.
save_stock_prices_ignore(table, price_data) ==
    IF price_data.dates = {}
    THEN [raised |-> FALSE, table |-> table]
    ELSE IF Len(price_data.columns) /= InsertColumns
    THEN [raised |-> TRUE, table |-> table]
    ELSE LET rows == { [code  |-> CellValue(price_data, d, price_data.columns[1]),
                        date  |-> CellValue(price_data, d, price_data.columns[2]),
                        close |-> CellValue(price_data, d, price_data.columns[6])] :
                       d \in price_data.dates }
             fresh == { n \in rows :
                          ~ \E r \in table : n.code = r.code /\ n.date = r.date }
         IN  [raised |-> FALSE, table |-> table \cup fresh]

\* save_stock_prices that clears the table before it inserts the batch.
save_stock_prices_clear(table, price_data) ==
    IF price_data.dates = {}
    THEN [raised |-> FALSE, table |-> table]
    ELSE IF Len(price_data.columns) /= InsertColumns
    THEN [raised |-> TRUE, table |-> table]
    ELSE [raised |-> FALSE,
          table |-> { [code  |-> CellValue(price_data, d, price_data.columns[1]),
                       date  |-> CellValue(price_data, d, price_data.columns[2]),
                       close |-> CellValue(price_data, d, price_data.columns[6])] :
                      d \in price_data.dates }]

\* save_stock_prices committing row by row: when the statement does not
\* fit the batch, the rows are stored and the error is raised all the same.
save_stock_prices_partial(table, price_data) ==
    IF price_data.dates = {}
    THEN [raised |-> FALSE, table |-> table]
    ELSE LET rows == { [code  |-> price_data.code, date |-> d,
                        close |-> price_data.v] : d \in price_data.dates }
             kept == { r \in table :
                         ~ \E n \in rows : n.code = r.code /\ n.date = r.date }
         IN  [raised |-> Len(price_data.columns) /= InsertColumns,
              table |-> kept \cup rows]

\* save_stock_prices: one '?' per column of the batch against the 8 column
\* names of the statement; the values are bound by position.  INSERT OR
\* REPLACE under UNIQUE(code, date) replaces the row of the same key.
save_stock_prices(table, price_data) ==
    IF price_data.dates = {}
    THEN [raised |-> FALSE, table |-> table]
    ELSE IF Len(price_data.columns) /= InsertColumns
    THEN [raised |-> TRUE, table |-> table]
    ELSE LET rows == { [code  |-> CellValue(price_data, d, price_data.columns[1]),
                        date  |-> CellValue(price_data, d, price_data.columns[2]),
                        close |-> CellValue(price_data, d, price_data.columns[6])] :
                       d \in price_data.dates }
             kept == { r \in table :
                         ~ \E n \in rows : n.code = r.code /\ n.date = r.date }
         IN  [raised |-> FALSE, table |-> kept \cup rows]

\* save_stock_concepts: to_sql(if_exists='append', method='multi') is one
\* plain INSERT of the whole batch; (code, concept) is the PRIMARY KEY, so a
\* pair already stored makes it raise and nothing of the batch is stored.
save_stock_concepts(table, concept_data) ==
    IF concept_data = {}
    THEN [raised |-> FALSE, table |-> table]
    ELSE IF concept_data \cap table /= {}
    THEN [raised |-> TRUE, table |-> table]
    ELSE [raised |-> FALSE, table |-> table \cup concept_data]

\* self.db.get_all_stocks_latest_dates(): StockDatabase defines no such
\* method, so the attribute lookup raises AttributeError.
get_all_stocks_latest_dates(prices) ==
    [raised |-> TRUE, latest |-> [c \in Codes |-> 0]]

-----------------------------------------------------------------------------
(* DataFetcher: the body of one attempt of each fetch.                      *)

\* pd.merge(stock_list, stock_info, on='code', how='left'): the primary
\* rows in order, each once per matching enrichment row, or once if none.
RECURSIVE MergeLeft(_, _)
MergeLeft(primary, info) ==
    IF primary = << >> THEN << >>
    ELSE LET c == Head(primary)
             n == Len(SelectSeqIn(info, {c}))
         IN  [k \in 1..(IF n = 0 THEN 1 ELSE n) |-> c]
             \o MergeLeft(Tail(primary), info)

\* An exchange feed as the fetcher takes it: a feed that raises is an
\* empty enrichment.
Enrichment(feed) == IF feed.kind = "rows" THEN feed.codes ELSE << >>

\* fetch_stock_list, one attempt: the codes of the catalog it returns.
FetchStockListBody(primary, sh, sz) ==
    CASE primary.kind = "raise" -> [kind |-> "raise", codes |-> << >>]
      [] primary.kind = "empty" -> [kind |-> "ok", codes |-> << >>]
      [] OTHER ->
           LET stock_info_ == Enrichment(sh) \o Enrichment(sz)
           IN  [kind |-> "ok",
                codes |-> IF stock_info_ /= << >>
                          THEN MergeLeft(primary.codes, stock_info_)
                          ELSE primary.codes]

\* A name cell that is missing (NaN).
Missing == "NaN"

\* name_y.fillna(name_x): the enrichment name preferred.
FillNaReversed(x, y) == IF y /= Missing THEN y ELSE x

\* result['name_x'].fillna(result['name_y'])
FillNa(x, y) == IF x /= Missing THEN x ELSE y

\* The name column of pd.merge(stock_list, stock_info, on='code',
\* how='left') after name_x.fillna(name_y): rows are [code, name]; name_x is
\* the primary name, name_y the name of the matching enrichment row,
\* missing when no row matches.
RECURSIVE MergeNames(_, _)
MergeNames(primary, info) ==
    IF primary = << >> THEN << >>
    ELSE LET p == Head(primary)
             m == SelectSeq(info, LAMBDA e : e.code = p.code)
         IN  (IF m = << >>
              THEN << [code |-> p.code, name |-> FillNa(p.name, Missing)] >>
              ELSE [k \in 1..Len(m) |->
                      [code |-> p.code, name |-> FillNa(p.name, m[k].name)]])
             \o MergeNames(Tail(primary), info)

\* fetch_stock_list, the code and name columns of the catalog it returns
\* for a non-empty primary feed: the merge when stock_info is not empty,
\* else a copy of the primary feed.
FetchStockListNames(primary, info) ==
    IF info /= << >> THEN MergeNames(primary, info) ELSE primary

\* A period argument: one of the named periods, or "<start>_<end>".
NamedPeriod(name) == [name |-> name, start |-> 0, end |-> 0]
CustomPeriod(start, end) == [name |-> "custom", start |-> start, end |-> end]

\* fetch_stock_prices, the date range: start_date_str and end_date_str.
\* now - timedelta(days=365) is the same day one year earlier for every
\* day of the modelled calendar (no 29 February lies between).
Window(period, now) ==
    CASE period.name = "1year" -> [start |-> Ymd(now) - 10000, end |-> Ymd(now)]
      [] period.name = "all"   -> [start |-> HistoryFloor, end |-> Ymd(now)]
      [] OTHER                 -> [start |-> period.start, end |-> period.end]

\* The dates the provider has rows for in a window: every day up to now.
ProviderDates(window, now) ==
    { Ymd(d) : d \in { e \in 1..now : window.start <= Ymd(e) /\ Ymd(e) <= window.end } }

EmptyPrices == [code |-> "", columns |-> << >>, dates |-> {}, v |-> 0]

\* fetch_stock_prices taking an empty answer of the provider for a failure.
FetchStockPricesBodyEmptyRaises(code, window, now, resp) ==
    CASE resp.kind = "raise" -> [kind |-> "raise", df |-> EmptyPrices]
      [] resp.kind = "empty" \/ ProviderDates(window, now) = {} ->
           [kind |-> "raise", df |-> EmptyPrices]
      [] OTHER ->
           LET have == resp.cols \cup {"code"}
               available_columns == SelectSeqIn(RequiredColumns, have)
           IN  [kind |-> "ok",
                df |-> [code |-> code,
                        columns |-> available_columns
                                    \o SelectSeqIn(OptionalColumns, have),
                        dates |-> ProviderDates(window, now),
                        v |-> resp.v]]

\* fetch_stock_prices, one attempt, given the provider's answer: the frame
\* it returns.  Its columns are the required ones the provider carried
\* (with 'code') followed by the optional ones it carried.
FetchStockPricesBody(code, window, now, resp) ==
    CASE resp.kind = "raise" -> [kind |-> "raise", df |-> EmptyPrices]
      [] resp.kind = "empty" \/ ProviderDates(window, now) = {} ->
           [kind |-> "ok", df |-> EmptyPrices]
      [] OTHER ->
           LET have == resp.cols \cup {"code"}
               available_columns == SelectSeqIn(RequiredColumns, have)
           IN  [kind |-> "ok",
                df |-> [code |-> code,
                        columns |-> available_columns
                                    \o SelectSeqIn(OptionalColumns, have),
                        dates |-> ProviderDates(window, now),
                        v |-> resp.v]]

\* concepts = list(set(concepts))[:10]
ConceptCap == 10

\* The first non-empty answer of the three concept methods; a method that
\* raises is skipped.
FirstConceptFrame(r1, r2, r3) ==
    LET nonempty(r) == r.kind \in {"rows", "unhashable"}
    IN  IF nonempty(r1) THEN r1
        ELSE IF nonempty(r2) THEN r2
        ELSE IF nonempty(r3) THEN r3
        ELSE [kind |-> "empty", col |-> "known", names |-> << >>]

\* list(set(concepts)) without the [:10]: every distinct name is kept.
CappedNamesAll(names) == { Range(names) }

\* list(set(concepts))[:10]: the distinct names, in the set's own order,
\* cut to ten: any ten of them when there are more.
CappedNames(names) ==
    LET all == Range(names)
        n   == IF Cardinality(all) < ConceptCap THEN Cardinality(all) ELSE ConceptCap
    IN  { S \in SUBSET all : Cardinality(S) = n }

\* The names the attempt read from the provider: the names column of the
\* first non-empty answer, when it is under a name the fetcher looks for.
ProvidedNames(r1, r2, r3) ==
    LET concept_df == FirstConceptFrame(r1, r2, r3)
    IN  IF concept_df.kind = "rows" /\ concept_df.col = "known"
        THEN Range(concept_df.names) ELSE {}

\* fetch_stock_concepts, one attempt: the (code, concept) pairs it may
\* return, or that it raises.
FetchStockConceptsBody(code, r1, r2, r3) ==
    LET concept_df == FirstConceptFrame(r1, r2, r3)
    IN  CASE concept_df.kind = "unhashable" ->
               { [kind |-> "raise", df |-> {}] }
          [] concept_df.kind = "rows" /\ concept_df.col = "known" ->
               { [kind |-> "ok", df |-> { <<code, c>> : c \in S }] :
                   S \in CappedNames(concept_df.names) }
          [] OTHER -> { [kind |-> "ok", df |-> {}] }

-----------------------------------------------------------------------------
(* State *)

VARIABLES
    stock_info,      \* table stock_info: the codes stored
    stock_prices,    \* table stock_prices: rows [code, date, close]
    stock_concepts,  \* table stock_concepts: pairs <<code, concept>>
    today,           \* datetime.now(), as a day ordinal
    outage,          \* the codes whose price requests the provider fails all run long
    max_retries,     \* DataFetcher.max_retries
    retry_delay,     \* DataFetcher.retry_delay
    mode,            \* the run: "full", "incremental" (download_all_stocks_data) or "main"
    price_period,    \* the price_period argument of the run
    stock_limit,     \* --stock-limit of main()
    pc,              \* where the run stands
    stock_list,      \* the catalog the run loops over
    i,               \* 1-based position of the instrument in progress
    latest_dates,    \* code -> latest stored date (0: none), of an incremental run
    success_count,
    failed_count,
    result,          \* what the run returned: "True", "False", "None", "raised"
    call,            \* the retried fetch call in progress, or the last one ended
    \* the history of the run in progress
    info_before,     \* table stock_info as the run found it
    prices_before,   \* table stock_prices as the run found it
    concepts_before, \* table stock_concepts as the run found it
    concept_fetch,   \* the last attempt of fetch_stock_concepts: the names the
                     \* provider returned and the frame the attempt returned
    list_fetch,      \* how fetch_stock_list ended: "none", "rows", "empty", "raised"
    persisted,       \* save_stock_info returned normally in this run
    resolved,        \* get_all_stocks_latest_dates: "none", "returned", "raised"
    wrote,           \* the tables this run has written to
    outcome,         \* position -> what happened to the instrument
    issued,          \* the price requests sent to the provider
    pauses,          \* the positions after which the run slept 3 s
    \* the replay of a download (SpecTwice)
    script,          \* the answers the provider gives to every request, when fixed
    runs,            \* the number of runs started
    once,            \* the three tables as the first run left them
    merged,          \* a merge of catalog names: the rows merged and the result (SpecNames)
    driver           \* the schedule driver of start_scheduled_updates (SpecSchedule)

db_vars   == <<stock_info, stock_prices, stock_concepts>>
cfg_vars  == <<max_retries, retry_delay, mode, price_period, stock_limit>>
ctl_vars  == <<pc, stock_list, i, latest_dates, success_count, failed_count, result>>
hist_vars == <<info_before, prices_before, concepts_before, concept_fetch,
               list_fetch, persisted, resolved, wrote, outcome, issued, pauses>>
replay_vars == <<script, runs, once>>
vars == <<db_vars, today, outage, cfg_vars, ctl_vars, call, hist_vars, replay_vars,
          merged, driver>>

\* The commands a run is started by, with the arguments that reach the run:
\*   auto_updater.py download-all [--incremental] [--period P]
\*   auto_updater.py daily-update   (incremental, period "all")
\*   main.py --stock-limit 2 [--max-retries 1]   (--price-period 1year)
\* stock_limit 0 stands for update_all_data(stock_limit=None).
Commands ==
    { [mode |-> "full", price_period |-> "all",
       max_retries |-> DefaultMaxRetries, stock_limit |-> 0],
      [mode |-> "incremental", price_period |-> "all",
       max_retries |-> DefaultMaxRetries, stock_limit |-> 0],
      [mode |-> "incremental", price_period |-> "1year",
       max_retries |-> DefaultMaxRetries, stock_limit |-> 0],
      [mode |-> "main", price_period |-> "1year",
       max_retries |-> DefaultMaxRetries, stock_limit |-> 2],
      [mode |-> "main", price_period |-> "1year",
       max_retries |-> 1, stock_limit |-> 2] }

\* A retried call: its operation, the result of each attempt made ("ok",
\* "fail"), whether it is running, returned or raised, the waits between
\* its attempts, and for each attempt whether every provider call the
\* attempt made raised.
NoCall == [op |-> "none", results |-> << >>, status |-> "returned",
           sleeps |-> << >>, provider_raised |-> << >>]

NoOutcome == [price |-> "none", concept |-> "none", counted |-> "none"]

NoConceptFetch == [names |-> {}, df |-> {}]

\* The database the run finds: new (init_database), or as a full download
\* of day 1 left it, which listed A, B and C, got prices for A and C and
\* one concept for A.
InitialDatabases ==
    { [stock_info |-> {}, stock_prices |-> {}, stock_concepts |-> {}],
      [stock_info |-> {"A", "B", "C"},
       stock_prices |-> {[code |-> "A", date |-> Ymd(1), close |-> 1],
                         [code |-> "C", date |-> Ymd(1), close |-> 1]},
       stock_concepts |-> {<<"A", "x">>}] }

\* The provider may be unable to serve the prices of one instrument for
\* the whole run.
Outages == { {}, {"B"} }

\* The provider is free to answer each request as it likes.
NoScript == [fixed |-> FALSE]

NoTables == [stock_info |-> {}, stock_prices |-> {}, stock_concepts |-> {}]

\* No merge of names has been looked at.
NoMerge == [primary |-> << >>, info |-> << >>, result |-> << >>]

\* start_scheduled_updates has not been called.
NoDriver == [at |-> "off"]

InitBase ==
    /\ \E d \in InitialDatabases :
         /\ stock_info = d.stock_info
         /\ stock_prices = d.stock_prices
         /\ stock_concepts = d.stock_concepts
    /\ today \in Days
    /\ outage \in Outages
    /\ max_retries = DefaultMaxRetries
    /\ retry_delay = DefaultRetryDelay
    /\ mode = "full"
    /\ price_period = "all"
    /\ stock_limit = 0
    /\ pc = "idle"
    /\ stock_list = << >>
    /\ i = 0
    /\ latest_dates = [c \in Codes |-> 0]
    /\ success_count = 0
    /\ failed_count = 0
    /\ result = "none"
    /\ call = NoCall
    /\ info_before = {}
    /\ prices_before = {}
    /\ concepts_before = {}
    /\ concept_fetch = NoConceptFetch
    /\ list_fetch = "none"
    /\ persisted = FALSE
    /\ resolved = "none"
    /\ wrote = {}
    /\ outcome = << >>
    /\ issued = {}
    /\ pauses = {}
    /\ runs = 0
    /\ once = NoTables
    /\ merged = NoMerge

Init ==
    /\ InitBase
    /\ script = NoScript
    /\ driver = NoDriver

-----------------------------------------------------------------------------
(* The retry decorator *)

RECURSIVE Power(_, _)
Power(b, n) == IF n = 0 THEN 1 ELSE b * Power(b, n - 1)

\* The call an attempt of op belongs to: the one in progress, or a new one.
CurrentCall(op) ==
    IF call.op = op /\ call.status = "running"
    THEN call
    ELSE [op |-> op, results |-> << >>, status |-> "running",
          sleeps |-> << >>, provider_raised |-> << >>]

\* Retry with an off-by-one in the attempt count: it raises only after one
\* attempt more than tries.
RetryOneTooMany(c, failed) ==
    LET made == Len(c.results) + 1
    IN  IF ~failed
        THEN [c EXCEPT !.results = Append(@, "ok"), !.status = "returned"]
        ELSE IF made > tries
        THEN [c EXCEPT !.results = Append(@, "fail"), !.status = "raised"]
        ELSE [c EXCEPT !.results = Append(@, "fail"),
                       !.sleeps = Append(@, delay * Power(backoff, made - 1))]

\* Retry without the backoff: every wait is the initial delay.
RetryFixedDelay(c, failed) ==
    LET made == Len(c.results) + 1
    IN  IF ~failed
        THEN [c EXCEPT !.results = Append(@, "ok"), !.status = "returned"]
        ELSE IF made >= tries
        THEN [c EXCEPT !.results = Append(@, "fail"), !.status = "raised"]
        ELSE [c EXCEPT !.results = Append(@, "fail"),
                       !.sleeps = Append(@, delay)]

\* retry: the call after one more attempt, which failed or returned.
\*   while _tries: try: return f()
\*                 except: _tries -= 1; if not _tries: raise
\*                         time.sleep(_delay); _delay *= backoff
Retry(c, failed) ==
    LET made == Len(c.results) + 1
    IN  IF ~failed
        THEN [c EXCEPT !.results = Append(@, "ok"), !.status = "returned"]
        ELSE IF made >= tries
        THEN [c EXCEPT !.results = Append(@, "fail"), !.status = "raised"]
        ELSE [c EXCEPT !.results = Append(@, "fail"),
                       !.sleeps = Append(@, delay * Power(backoff, made - 1))]

\* The call after one more attempt of the body, whose provider calls all
\* raised or not.
Attempt(op, failed, provider_raised) ==
    LET c == CurrentCall(op)
    IN  Retry([c EXCEPT !.provider_raised = Append(@, provider_raised)], failed)

-----------------------------------------------------------------------------
(* The instrument loop of update_all_data, download_all_stocks_data and    *)
(* main: where the run goes next.  A control value names the next pc, the  *)
(* position, the two counters, the result and the pauses taken.            *)

\* The fetch window planning of the incremental loop: whether a price
\* fetch is issued for the code, and with which period argument, given the
\* latest dates the run resolved.
Plan(latest, code) ==
    IF mode = "incremental" /\ latest[code] /= 0
    THEN LET next_day == Strptime(latest[code]) + 1
         IN  IF Ymd(next_day) <= Ymd(today)
             THEN [fetch |-> TRUE, period |-> CustomPeriod(Ymd(next_day), Ymd(today))]
             ELSE [fetch |-> FALSE, period |-> NamedPeriod(price_period)]
    ELSE [fetch |-> TRUE, period |-> NamedPeriod(price_period)]

Control(p, k, sc, fc, res, ps) ==
    [pc |-> p, i |-> k, success_count |-> sc, failed_count |-> fc,
     result |-> res, pauses |-> ps]

\* The run returns res.
Return(res) == Control("done", i, success_count, failed_count, res, pauses)

\* The loop body starts on position k.
Enter(latest, list, k, sc, fc, ps) ==
    Control(IF Plan(latest, list[k]).fetch THEN "fetch_stock_prices"
                                   ELSE "fetch_stock_concepts",
            k, sc, fc, "none", ps)

\* The loop body of position k has ended: the next instrument, or the
\* summary and the return (True from download_all_stocks_data, nothing
\* from main).
AfterInstrument(list, k, sc, fc, ps) ==
    IF k < Len(list)
    THEN Enter(latest_dates, list, k + 1, sc, fc, ps)
    ELSE Control("done", k, sc, fc, IF mode = "main" THEN "None" ELSE "True", ps)

\* The pause taken after every fifth instrument, the last one included.
SucceededPauseAfterLast(list, k) ==
    AfterInstrument(list, k, success_count + 1, failed_count,
                    IF mode /= "main" /\ k % BatchSize = 0
                    THEN pauses \cup {k} ELSE pauses)

\* success_count += 1, then the pause after every fifth instrument but the
\* last (main sleeps 1 s after each instrument instead).
Succeeded(list, k) ==
    AfterInstrument(list, k, success_count + 1, failed_count,
                    IF mode /= "main" /\ k % BatchSize = 0 /\ k < Len(list)
                    THEN pauses \cup {k} ELSE pauses)

\* The instrument that failed counted as a success as well.
FailedCountedTwice(list, k) ==
    AfterInstrument(list, k, success_count + 1, failed_count + 1, pauses)

\* except Exception: failed_count += 1; continue
Failed(list, k) ==
    AfterInstrument(list, k, success_count, failed_count + 1, pauses)

Mark(out, k, field, val) == [out EXCEPT ![k][field] = val]

\* The run moves to control value c with instrument history out.
Apply(c, out) ==
    /\ pc' = c.pc
    /\ i' = c.i
    /\ success_count' = c.success_count
    /\ failed_count' = c.failed_count
    /\ result' = c.result
    /\ pauses' = c.pauses
    /\ outcome' = IF c.pc = "fetch_stock_concepts" /\ c.i /= i
                  THEN Mark(out, c.i, "price", "noop")
                  ELSE out

-----------------------------------------------------------------------------
(* Actions *)

\* A run starts: download_all_stocks_data(price_period, incremental) on a
\* StockDataUpdater (whose fetcher has the default settings), or main()
\* with its arguments.  Begin is the start of the process, StartRun the
\* start of the first run on the database.
Begin(cmd) ==
    /\ mode' = cmd.mode
    /\ price_period' = cmd.price_period
    /\ max_retries' = cmd.max_retries
    /\ stock_limit' = cmd.stock_limit
    /\ retry_delay' = DefaultRetryDelay
    /\ pc' = "fetch_stock_list"
    /\ stock_list' = << >>
    /\ i' = 0
    /\ latest_dates' = [c \in Codes |-> 0]
    /\ success_count' = 0
    /\ failed_count' = 0
    /\ result' = "none"
    /\ call' = NoCall
    /\ info_before' = stock_info
    /\ prices_before' = stock_prices
    /\ concepts_before' = stock_concepts
    /\ concept_fetch' = NoConceptFetch
    /\ list_fetch' = "none"
    /\ persisted' = FALSE
    /\ resolved' = "none"
    /\ wrote' = {}
    /\ outcome' = << >>
    /\ issued' = {}
    /\ pauses' = {}
    /\ runs' = runs + 1
    /\ UNCHANGED <<db_vars, today, outage, script, merged>>

StartRun(cmd) ==
    /\ pc = "idle"
    /\ Begin(cmd)
    /\ UNCHANGED <<once, driver>>

\* The first codes of the list: stock_list.head(limit).
HeadOf(list, limit) ==
    SubSeq(list, 1, IF limit < Len(list) THEN limit ELSE Len(list))

\* fetch_stock_list raised on its last attempt.  update_all_data logs and
\* returns, and download_all_stocks_data then returns True; the
\* incremental branch returns False; main lets it escape.
ListRaised ==
    /\ list_fetch' = "raised"
    /\ Apply(Return(CASE mode = "full" -> "True"
                      [] mode = "incremental" -> "False"
                      [] OTHER -> "raised"),
             outcome)
    /\ UNCHANGED <<db_vars, stock_list, latest_dates, info_before, prices_before,
                   concepts_before, concept_fetch, persisted, resolved, wrote>>

\* fetch_stock_list returned the catalog codes: the catalog is saved, the
\* incremental branch resolves the latest dates, and the loop starts.
ListReturned(codes) ==
    LET list   == IF mode = "main" /\ stock_limit > 0
                  THEN HeadOf(codes, stock_limit) ELSE codes
        saved  == save_stock_info(stock_info, list)
        latest == get_all_stocks_latest_dates(stock_prices)
        fresh  == [k \in 1..Len(list) |-> NoOutcome]
    IN  IF codes = << >>
        THEN /\ list_fetch' = "empty"
             /\ Apply(Return(CASE mode = "full" -> "True"
                               [] mode = "incremental" -> "False"
                               [] OTHER -> "None"),
                      outcome)
             /\ UNCHANGED <<db_vars, stock_list, latest_dates, info_before,
                            prices_before, concepts_before, concept_fetch,
                            persisted, resolved, wrote>>
        ELSE /\ list_fetch' = "rows"
             /\ stock_list' = list
             /\ stock_info' = saved.table
             /\ wrote' = wrote \cup {"stock_info"}
             /\ persisted' = ~saved.raised
             /\ UNCHANGED <<info_before, prices_before, concepts_before, concept_fetch>>
             /\ UNCHANGED <<stock_prices, stock_concepts>>
             /\ IF saved.raised
                THEN /\ Apply(Return(CASE mode = "full" -> "True"
                                       [] mode = "incremental" -> "False"
                                       [] OTHER -> "raised"),
                              outcome)
                     /\ UNCHANGED <<latest_dates, resolved>>
                ELSE IF mode = "incremental"
                THEN IF latest.raised
                     THEN /\ resolved' = "raised"
                          /\ Apply(Return("False"), outcome)
                          /\ UNCHANGED latest_dates
                     ELSE /\ resolved' = "returned"
                          /\ latest_dates' = latest.latest
                          /\ Apply(Enter(latest.latest, list, 1, 0, 0, {}), fresh)
                ELSE /\ Apply(Enter(latest_dates, list, 1, 0, 0, {}), fresh)
                     /\ UNCHANGED <<latest_dates, resolved>>

\* One attempt of fetch_stock_list, given what the three feeds answer, and
\* what follows its end.
FetchStockListAttempt(primary, sh, sz) ==
    /\ pc = "fetch_stock_list"
    /\   LET r == FetchStockListBody(primary, sh, sz)
             c == Attempt("fetch_stock_list", r.kind = "raise", primary.kind = "raise")
         IN  /\ call' = c
             /\ CASE c.status = "running" ->
                       UNCHANGED <<db_vars, ctl_vars, hist_vars>>
                  [] c.status = "raised" -> ListRaised
                  [] OTHER -> ListReturned(r.codes)
    /\ UNCHANGED <<today, outage, cfg_vars, issued, replay_vars, merged, driver>>

\* One attempt of fetch_stock_prices for the instrument in progress, given
\* the provider's answer, and what follows its end: the save of a non-empty frame, then the concept
\* step.  In update_all_data and download_all_stocks_data the price step has
\* its own try/except, which logs and goes on; in main the exception ends
\* the loop body and counts the instrument as failed.
FetchStockPricesAttempt(resp) ==
    /\ pc = "fetch_stock_prices"
    /\ stock_list[i] \in outage => resp.kind = "raise"
    /\   LET code   == stock_list[i]
             window == Window(Plan(latest_dates, code).period, today)
             r      == FetchStockPricesBody(code, window, today, resp)
             c      == Attempt("fetch_stock_prices", r.kind = "raise",
                               resp.kind = "raise")
             saved  == save_stock_prices(stock_prices, r.df)
             price  == CASE c.status = "raised" -> "exhausted"
                         [] r.df.dates = {}     -> "empty"
                         [] saved.raised        -> "save_raised"
                         [] OTHER               -> "saved"
             marked == Mark(outcome, i, "price", price)
         IN  /\ call' = c
             /\ issued' = issued \cup
                    {[code |-> code, start |-> window.start, end |-> window.end]}
             /\ IF c.status = "running"
                THEN UNCHANGED <<stock_prices, wrote, pc, i, success_count,
                                 failed_count, result, pauses, outcome>>
                ELSE /\ stock_prices' = IF price \in {"saved", "save_raised"}
                                        THEN saved.table ELSE stock_prices
                     /\ wrote' = IF price = "saved" THEN wrote \cup {"stock_prices"}
                                                    ELSE wrote
                     /\ IF mode = "main" /\ price \in {"exhausted", "save_raised"}
                        THEN Apply(Failed(stock_list, i),
                                   Mark(Mark(marked, i, "concept", "skipped"),
                                        i, "counted", "failed"))
                        ELSE Apply(Control("fetch_stock_concepts", i, success_count,
                                           failed_count, "none", pauses),
                                   marked)
    /\ UNCHANGED <<stock_info, stock_concepts, today, outage, cfg_vars, stock_list,
                   latest_dates, info_before, prices_before, concepts_before,
                   concept_fetch, list_fetch, persisted, resolved, replay_vars,
                   merged, driver>>

\* One attempt of fetch_stock_concepts for the instrument in progress, given
\* the answers of its three concept methods, and what follows its end: the save of a non-empty frame, the count of the
\* instrument, the pause, and the next instrument or the return.
FetchStockConceptsAttempt(r1, r2, r3) ==
    /\ pc = "fetch_stock_concepts"
    /\   \E r \in FetchStockConceptsBody(stock_list[i], r1, r2, r3) :
           LET c       == Attempt("fetch_stock_concepts", r.kind = "raise",
                                  \A a \in {r1, r2, r3} : a.kind = "raise")
               saved   == save_stock_concepts(stock_concepts, r.df)
               concept == CASE c.status = "raised" -> "exhausted"
                            [] r.df = {}           -> "empty"
                            [] saved.raised        -> "save_raised"
                            [] OTHER               -> "saved"
               marked  == Mark(outcome, i, "concept", concept)
           IN  /\ call' = c
               /\ concept_fetch' = [names |-> ProvidedNames(r1, r2, r3), df |-> r.df]
               /\ IF c.status = "running"
                  THEN UNCHANGED <<stock_concepts, wrote, pc, i, success_count,
                                   failed_count, result, pauses, outcome>>
                  ELSE /\ stock_concepts' = IF concept \in {"saved", "save_raised"}
                                            THEN saved.table ELSE stock_concepts
                       /\ wrote' = IF concept = "saved"
                                   THEN wrote \cup {"stock_concepts"} ELSE wrote
                       /\ IF mode = "main" /\ concept \in {"exhausted", "save_raised"}
                          THEN Apply(Failed(stock_list, i),
                                     Mark(marked, i, "counted", "failed"))
                          ELSE Apply(Succeeded(stock_list, i),
                                     Mark(marked, i, "counted", "success"))
    /\ UNCHANGED <<stock_info, stock_prices, today, outage, cfg_vars, stock_list,
                   latest_dates, info_before, prices_before, concepts_before,
                   list_fetch, persisted, resolved, issued, replay_vars,
                   merged, driver>>

Next ==
    \/ \E cmd \in Commands :
         StartRun(cmd)
    \/ \E primary \in PrimaryFeeds, sh \in EnrichmentFeeds, sz \in EnrichmentFeeds :
         FetchStockListAttempt(primary, sh, sz)
    \/ \E resp \in ProviderPrices :
         FetchStockPricesAttempt(resp)
    \/ \E r1 \in ProviderConcepts, r2 \in ProviderConcepts, r3 \in ProviderConcepts :
         FetchStockConceptsAttempt(r1, r2, r3)

Spec == Init /\ [][Next]_vars

-----------------------------------------------------------------------------
(* Runs over long catalogs: the pacing of the loop.  The provider lists up *)
(* to MaxCatalog instruments; each price request raises or is answered     *)
(* with rows, and the provider has no concepts.                            *)

LongCatalog ==
    <<"S01", "S02", "S03", "S04", "S05", "S06", "S07", "S08", "S09", "S10",
      "S11", "S12", "S13">>

LongFeeds ==
    { [kind |-> "rows", codes |-> SubSeq(LongCatalog, 1, n)] : n \in 1..MaxCatalog }

NoRows == [kind |-> "empty", codes |-> << >>]

NoConcepts == [kind |-> "empty", col |-> "known", names |-> << >>]

BatchPrices ==
    { r \in ProviderPrices :
        \/ r.kind = "raise"
        \/ r.kind = "rows" /\ Cardinality(r.cols) + 1 = InsertColumns }

InitBatch ==
    /\ Init
    /\ stock_info = {}
    /\ outage = {}

NextBatch ==
    \/ \E cmd \in { c \in Commands : c.mode /= "main" /\ c.price_period = "all" } :
         StartRun(cmd)
    \/ \E primary \in LongFeeds :
         FetchStockListAttempt(primary, NoRows, NoRows)
    \/ \E resp \in BatchPrices :
         FetchStockPricesAttempt(resp)
    \/ FetchStockConceptsAttempt(NoConcepts, NoConcepts, NoConcepts)

SpecBatch == InitBatch /\ [][NextBatch]_vars

-----------------------------------------------------------------------------
(* Runs over a one-instrument catalog whose concept provider returns many  *)
(* names: the cap on the concepts of one fetch.                            *)

NamePool ==
    <<"x", "z", "c03", "c04", "c05", "c06", "c07", "c08", "c09", "c10",
      "c11", "c12", "c13", "c14", "c15", "c16", "c17", "c18", "c19", "c20",
      "c21">>

\* A concept answer of n distinct names, the first of them listed twice.
Names(n) ==
    [kind |-> "rows", col |-> "known",
     names |-> SubSeq(NamePool, 1, n) \o <<NamePool[1]>>]

ManyNames == { Names(n) : n \in 1..MaxNames }

OneInstrument == [kind |-> "rows", codes |-> <<"A">>]

NoPrices == [kind |-> "empty", cols |-> {}, v |-> 0]

ConceptsRaise == [kind |-> "raise", col |-> "known", names |-> << >>]

NextConcepts ==
    \/ \E cmd \in { c \in Commands : c.mode = "full" } :
         StartRun(cmd)
    \/ FetchStockListAttempt(OneInstrument, NoRows, NoRows)
    \/ FetchStockPricesAttempt(NoPrices)
    \/ \E r1 \in ManyNames :
         FetchStockConceptsAttempt(ConceptsRaise, r1, NoConcepts)

SpecConcepts == Init /\ [][NextConcepts]_vars

-----------------------------------------------------------------------------
(* A full download run twice on a new database, the provider giving the    *)
(* same answer to the same request in both runs.                            *)

\* The provider's answers: the three list feeds, the answer to every price
\* request, the answers of the three concept methods.
Scripts ==
    { [fixed |-> TRUE, primary |-> p, sh |-> e, sz |-> NoRows, prices |-> q,
       r1 |-> c, r2 |-> NoConcepts, r3 |-> NoConcepts] :
        p \in PrimaryFeeds, e \in EnrichmentFeeds, q \in ProviderPrices,
        c \in ProviderConcepts }
    \cup
    { [fixed |-> TRUE, primary |-> OneInstrument, sh |-> NoRows, sz |-> NoRows,
       prices |-> NoPrices,
       r1 |-> ConceptsRaise, r2 |-> Names(2 * ConceptCap), r3 |-> NoConcepts] }

\* The place of a name in the provider's answer.
Place(name) == CHOOSE k \in 1..Len(NamePool) : NamePool[k] = name

\* list(set(concepts))[:10] in a process: the order of a set of strings
\* follows the hash seed of the process (PYTHONHASHSEED, random by
\* default).  Two of the orders are followed here: the one that puts the
\* names as the provider listed them, and its reverse.
HashOrders(all) ==
    IF Cardinality(all) <= ConceptCap
    THEN { all }
    ELSE { { n \in all : Cardinality({ m \in all : Place(m) < Place(n) }) < ConceptCap },
           { n \in all : Cardinality({ m \in all : Place(m) > Place(n) }) < ConceptCap } }

\* What an attempt of fetch_stock_concepts for the instrument in progress
\* may read and return under these orders.
HashedFetches ==
    LET all == ProvidedNames(script.r1, script.r2, script.r3)
    IN  { [names |-> all, df |-> {}] }
        \cup { [names |-> all, df |-> { <<stock_list[i], n>> : n \in S }] :
                 S \in HashOrders(all) }

InitTwice ==
    /\ InitBase
    /\ driver = NoDriver
    /\ stock_info = {}
    /\ outage = {}
    /\ script \in Scripts

\* The same command is run again, in a new process, on the database the
\* first run left.
RunAgain ==
    /\ pc = "done"
    /\ runs = 1
    /\ Begin([mode |-> mode, price_period |-> price_period,
              max_retries |-> max_retries, stock_limit |-> stock_limit])
    /\ once' = [stock_info |-> stock_info, stock_prices |-> stock_prices,
                stock_concepts |-> stock_concepts]
    /\ UNCHANGED driver

NextTwice ==
    \/ \E cmd \in { c \in Commands : c.mode = "full" } :
         StartRun(cmd)
    \/ RunAgain
    \/ FetchStockListAttempt(script.primary, script.sh, script.sz)
    \/ FetchStockPricesAttempt(script.prices)
    \/ /\ pc = "fetch_stock_concepts"
       /\ concept_fetch' \in HashedFetches
       /\ FetchStockConceptsAttempt(script.r1, script.r2, script.r3)

SpecTwice == InitTwice /\ [][NextTwice]_vars

-----------------------------------------------------------------------------
(* The names of the catalog: fetch_stock_list on feeds that carry names.   *)

\* Rows [code, name] of up to MaxRows rows over the given codes and names.
RowsOver(codes, names) ==
    UNION { [1..n -> [code : codes, name : names]] : n \in 0..MaxRows }

\* The primary feed lists its codes once each, in order.
NamedPrimaries ==
    { rows \in RowsOver({"A", "B", "C"}, {"p", Missing}) :
        /\ rows /= << >>
        /\ \A k \in 1..Len(rows) : rows[k].code = <<"A", "B", "C">>[k] }

NamedInfos == RowsOver({"A", "B"}, {"e", Missing})

MergeCatalog(primary, info) ==
    /\ merged' = [primary |-> primary, info |-> info,
                  result |-> FetchStockListNames(primary, info)]
    /\ UNCHANGED <<db_vars, today, outage, cfg_vars, ctl_vars, call, hist_vars,
                   replay_vars, driver>>

NextNames ==
    \E primary \in NamedPrimaries, info \in NamedInfos :
      MergeCatalog(primary, info)

InitNames ==
    /\ Init
    /\ stock_info = {}
    /\ today = 1
    /\ outage = {}

SpecNames == InitNames /\ [][NextNames]_vars

-----------------------------------------------------------------------------
(* start_scheduled_updates: the schedule driver.  Time is counted in polls *)
(* (the 60 s sleep of the loop); a day has PollsPerDay of them.  The job   *)
(* registered by schedule.every().day.at(update_time) is due when the      *)
(* clock has reached its next_run; run_pending runs a due job in the       *)
(* calling thread and, when the job has returned, sets next_run to the     *)
(* first update_time after the clock.                                       *)

\* The first time after t that falls on the update time of a day.
NextTrigger(t, at_time) ==
    CHOOSE x \in (t + 1)..(t + PollsPerDay) : x % PollsPerDay = at_time

\* update_daily_data: download_all_stocks_data(price_period="all",
\* incremental=True).
DailyUpdate ==
    [mode |-> "incremental", price_period |-> "all",
     max_retries |-> DefaultMaxRetries, stock_limit |-> 0]

\* The service starts at some time of day for some update time; served
\* lists the next_run of each invocation of the job, returned counts the
\* invocations that have returned.
InitSchedule ==
    /\ InitBase
    /\ stock_info = {}
    /\ outage = {}
    /\ script = NoScript
    /\ \E c \in 0..(PollsPerDay - 1), a \in 0..(PollsPerDay - 1) :
         driver = [at |-> "run_pending", clock |-> c, at_time |-> a,
                   next_run |-> NextTrigger(c, a), served |-> << >>, returned |-> 0]

\* schedule.run_pending() with no job due.
RunPendingNotDue ==
    /\ driver.at = "run_pending"
    /\ driver.clock < driver.next_run
    /\ driver' = [driver EXCEPT !.at = "sleep"]
    /\ UNCHANGED <<db_vars, today, outage, cfg_vars, ctl_vars, call, hist_vars,
                   replay_vars, merged>>

\* schedule.run_pending() with the job due: it calls update_daily_data.
RunPendingDue ==
    /\ driver.at = "run_pending"
    /\ driver.clock >= driver.next_run
    /\ Begin(DailyUpdate)
    /\ driver' = [driver EXCEPT !.at = "job",
                                !.served = Append(@, driver.next_run)]
    /\ UNCHANGED once

\* Time passes while the job runs.
TimePasses ==
    /\ driver.at = "job"
    /\ driver.clock < MaxClock
    /\ driver' = [driver EXCEPT !.clock = @ + 1]
    /\ UNCHANGED <<db_vars, today, outage, cfg_vars, ctl_vars, call, hist_vars,
                   replay_vars, merged>>

\* The job that returns leaves next_run where it was.
JobReturnsKeepsNextRun ==
    /\ driver.at = "job"
    /\ pc = "done"
    /\ driver' = [driver EXCEPT !.at = "sleep", !.returned = @ + 1]
    /\ UNCHANGED <<db_vars, today, outage, cfg_vars, ctl_vars, call, hist_vars,
                   replay_vars, merged>>

\* update_daily_data has returned: the job is scheduled for its next day,
\* and run_pending returns.
JobReturns ==
    /\ driver.at = "job"
    /\ pc = "done"
    /\ driver' = [driver EXCEPT !.at = "sleep", !.returned = @ + 1,
                                !.next_run = NextTrigger(driver.clock, driver.at_time)]
    /\ UNCHANGED <<db_vars, today, outage, cfg_vars, ctl_vars, call, hist_vars,
                   replay_vars, merged>>

\* time.sleep(60), then the next pass of the loop.
Sleep ==
    /\ driver.at = "sleep"
    /\ driver.clock < MaxClock
    /\ driver' = [driver EXCEPT !.at = "run_pending", !.clock = @ + 1]
    /\ UNCHANGED <<db_vars, today, outage, cfg_vars, ctl_vars, call, hist_vars,
                   replay_vars, merged>>

\* The daily job goes as far as its catalog refresh (the incremental run
\* ends at the resolution of the latest dates).
NextSchedule ==
    \/ RunPendingNotDue
    \/ RunPendingDue
    \/ \E primary \in PrimaryFeeds, sh \in EnrichmentFeeds, sz \in EnrichmentFeeds :
         FetchStockListAttempt(primary, sh, sz)
    \/ TimePasses
    \/ JobReturns
    \/ Sleep

SpecSchedule == InitSchedule /\ [][NextSchedule]_vars

-----------------------------------------------------------------------------
(* Properties *)

\* The runs of download_all_stocks_data, direct or through update_all_data.
UpdaterRun == mode \in {"full", "incremental"}

\* The latest date stored for a code in a price table, 0 when it has no row.
StoredWatermark(table, code) ==
    LET dates == { r.date : r \in { x \in table : x.code = code } }
    IN  IF dates = {} THEN 0
        ELSE CHOOSE d \in dates : \A e \in dates : e <= d

\* The instruments of the run whose price or concept fetch exhausted its
\* retries or whose save raised.
FailedPositions ==
    { k \in DOMAIN outcome :
        \/ outcome[k].price \in {"exhausted", "save_raised"}
        \/ outcome[k].concept \in {"exhausted", "save_raised"} }

\* The price requests the run has sent for a code.
IssuedFor(code) == { r \in issued : r.code = code }

\* C1: in a finished run of download_all_stocks_data whose catalog was
\* saved and lists B, with the provider failing every price request for B,
\* the run has returned True and every other instrument of the catalog has
\* had its price step (a fetch, or the plan that nothing is missing) and
\* its concept step carried out.
C1_FailureIsolation ==
    (/\ pc = "done" /\ UpdaterRun /\ persisted
     /\ "B" \in outage /\ "B" \in Range(stock_list))
    => /\ result = "True"
       /\ \A k \in 1..Len(stock_list) :
            stock_list[k] /= "B" =>
              /\ k \in DOMAIN outcome
              /\ outcome[k].price /= "none"
              /\ outcome[k].concept \notin {"none", "skipped"}

\* C2: when a run of download_all_stocks_data has finished its loop, every
\* instrument whose price or concept fetch exhausted its retries, or whose
\* save raised, is in the failed count and not in the success count.
C2_FailedCounted ==
    (pc = "done" /\ UpdaterRun /\ outcome /= << >>)
    => /\ failed_count >= Cardinality(FailedPositions)
       /\ success_count <= Len(stock_list) - Cardinality(FailedPositions)

\* C3: a finished run of download_all_stocks_data whose fetch_stock_list
\* failed on every attempt has written to no table and has returned False,
\* incremental or not.
C3_FatalCatalog ==
    (pc = "done" /\ UpdaterRun /\ list_fetch = "raised")
    => (wrote = {} /\ result = "False")

\* C4: a run of download_all_stocks_data that ended in failure (False, or
\* an exception) failed during the catalog refresh: the instrument list was
\* not both fetched and saved.
C4_FailedOnlyInCatalogRefresh ==
    (pc = "done" /\ UpdaterRun /\ result \in {"False", "raised"})
    => ~persisted

\* C5: a finished incremental run whose catalog was saved has sent, for
\* every instrument with a stored watermark W, exactly the price request
\* for [W + 1 day, today] when W + 1 day is not after today, and no price
\* request when it is.
C5_IncrementalWindow ==
    (pc = "done" /\ mode = "incremental" /\ persisted)
    => \A k \in 1..Len(stock_list) :
         LET code == stock_list[k]
             W    == StoredWatermark(prices_before, code)
             next == Ymd(Strptime(W) + 1)
         IN  W /= 0 =>
               IssuedFor(code) =
                 IF next <= Ymd(today)
                 THEN {[code |-> code, start |-> next, end |-> Ymd(today)]}
                 ELSE {}

\* C6: a finished incremental run whose catalog was saved has sent, for
\* every instrument with no stored price row, a price request for the
\* window from the history floor 19900101 through today.
C6_FullWindowWhenAbsent ==
    (pc = "done" /\ mode = "incremental" /\ persisted)
    => \A k \in 1..Len(stock_list) :
         LET code == stock_list[k]
         IN  StoredWatermark(prices_before, code) = 0 =>
               [code |-> code, start |-> HistoryFloor, end |-> Ymd(today)]
                 \in issued

\* C7: once an incremental run has saved its catalog, the bulk resolution
\* of the watermarks has returned without error, and the watermark of every
\* code is the latest date of its stored price rows, absent (0) exactly
\* when it has none.
C7_BulkWatermarks ==
    (mode = "incremental" /\ persisted)
    => /\ resolved = "returned"
       /\ \A code \in Codes :
            latest_dates[code] = StoredWatermark(prices_before, code)

\* C8: a retried fetch call makes at most 3 attempts, every attempt it
\* makes after the first follows a failed one (none follows a success), it
\* raises to its caller exactly when all 3 attempts have failed, and it
\* returns exactly when its last attempt succeeded.
C8_BoundedRetry ==
    LET n == Len(call.results)
    IN  /\ n <= 3
        /\ \A k \in 1..(n - 1) : call.results[k] = "fail"
        /\ call.status = "raised"
             <=> (n = 3 /\ \A k \in 1..n : call.results[k] = "fail")
        /\ (call.status = "returned" /\ call.op /= "none")
             <=> (n >= 1 /\ call.results[n] = "ok")

\* C8 witness: a price fetch has raised to its caller after three failed
\* attempts, and the loop has gone on to the concept step.
C8_Witness ==
    /\ call.op = "fetch_stock_prices"
    /\ call.status = "raised"
    /\ call.results = <<"fail", "fail", "fail">>
    /\ pc = "fetch_stock_concepts"
    /\ outcome[i].price = "exhausted"

\* C9: in a call of fetch_stock_concepts, an attempt whose provider calls
\* all raised is a failed attempt (so it is retried, and the call raises
\* when that happens on every attempt, instead of returning an empty result).
C9_ProviderRaiseFailsAttempt ==
    call.op = "fetch_stock_concepts"
    => \A k \in 1..Len(call.results) :
         call.provider_raised[k] => call.results[k] = "fail"

\* C10: a retried fetch makes at most max_retries attempts, raises once
\* max_retries attempts have failed, and waits retry_delay seconds before
\* its second attempt.
C10_ConfiguredRetry ==
    LET n == Len(call.results)
    IN  /\ n <= max_retries
        /\ (n = max_retries /\ call.results[n] = "fail") => call.status = "raised"
        /\ call.sleeps /= << >> => call.sleeps[1] = retry_delay

\* C11: the waits of a retried fetch grow exponentially: a call waits once
\* after each failed attempt that another attempt follows, 2 seconds before
\* its 2nd attempt and 4 seconds before its 3rd.
C11_ExponentialBackoff ==
    LET n == Len(call.results)
        w == Len(call.sleeps)
    IN  /\ w = IF call.status = "running" THEN n
               ELSE IF n = 0 THEN 0 ELSE n - 1
        /\ w >= 1 => call.sleeps[1] = 2
        /\ w >= 2 => call.sleeps[2] = 4
        /\ \A k \in 1..w : call.sleeps[k] = delay * Power(backoff, k - 1)

\* C11 witness: a fetch returned on its 3rd attempt, having waited twice.
C11_Witness ==
    /\ call.op = "fetch_stock_list"
    /\ call.results = <<"fail", "fail", "ok">>
    /\ Len(call.sleeps) = 2
    /\ call.status = "returned"

\* The (code, date) keys of a price table.
Keys(table) == { <<r.code, r.date>> : r \in table }

\* C12: a save that raises leaves the table it writes as it was before the
\* call: in the step in which save_stock_info, save_stock_prices or
\* save_stock_concepts raises, stock_info, stock_prices, stock_concepts
\* respectively does not change.
C12_AtomicSaves ==
    [][ /\ (list_fetch = "none" /\ list_fetch' = "rows" /\ ~persisted')
             => stock_info' = stock_info
        /\ (\E k \in DOMAIN outcome : /\ k \in DOMAIN outcome'
                                       /\ outcome[k].price /= "save_raised"
                                       /\ outcome'[k].price = "save_raised")
             => stock_prices' = stock_prices
        /\ (\E k \in DOMAIN outcome : /\ k \in DOMAIN outcome'
                                       /\ outcome[k].concept /= "save_raised"
                                       /\ outcome'[k].concept = "save_raised")
             => stock_concepts' = stock_concepts ]_vars

\* C13: once save_stock_info has returned normally with the list of the
\* run, the instrument table holds exactly the codes of that list.
C13_CatalogReplaced ==
    persisted => stock_info = Range(stock_list)

\* C13 witness: the run found C in the instrument table, saved a list
\* without C, and C is no longer stored.
C13_Witness ==
    /\ persisted
    /\ "C" \in info_before
    /\ "C" \notin Range(stock_list)
    /\ stock_info = {"A", "B"}

\* C14: the price table holds at most one row per (code, date), and once
\* save_stock_prices has stored the frame fetched for an instrument, the row
\* of each of its keys carries the value of that frame.
C14_LastWriteWins ==
    /\ \A r, q \in stock_prices : (r.code = q.code /\ r.date = q.date) => r = q
    /\ (pc = "fetch_stock_concepts" /\ outcome[i].price = "saved")
         => \A r \in stock_prices :
              (r.code = stock_list[i] /\ \E w \in IssuedFor(r.code) :
                                            w.start <= r.date /\ r.date <= w.end)
                => r.close \in Quotes

\* C14 witness: the run found a row for (A, day 1) with close 1, wrote the
\* key again, and the table holds one row for the key, with the new close.
C14_Witness ==
    /\ pc = "fetch_stock_concepts"
    /\ stock_list[i] = "A"
    /\ outcome[i].price = "saved"
    /\ [code |-> "A", date |-> Ymd(1), close |-> 1] \in prices_before
    /\ { r \in stock_prices : r.code = "A" /\ r.date = Ymd(1) }
         = { [code |-> "A", date |-> Ymd(1), close |-> 2] }

\* C15: save_stock_concepts does not raise on a batch that holds a stored
\* pair: whenever fetch_stock_concepts has returned a frame, every pair of
\* the frame is stored.
C15_DuplicatePairsAccepted ==
    /\ \A k \in DOMAIN outcome : outcome[k].concept /= "save_raised"
    /\ (call.op = "fetch_stock_concepts" /\ call.status = "returned")
         => concept_fetch.df \subseteq stock_concepts

\* C17: in a finished run of download_all_stocks_data whose catalog was
\* saved, the concept fetch was attempted for every instrument of the
\* catalog, whatever its price step came to.
C17_ConceptsAlwaysAttempted ==
    (pc = "done" /\ UpdaterRun /\ persisted)
    => \A k \in 1..Len(stock_list) :
         /\ k \in DOMAIN outcome
         /\ outcome[k].concept \notin {"none", "skipped"}

\* C19: no step of a run removes a (code, date) key from the price table.
C19_PriceKeysOnlyGrow ==
    [][ Keys(stock_prices) \subseteq Keys(stock_prices') ]_vars

\* C19 witness: the catalog refresh of the run dropped C from the
\* instrument table, the run has written prices, and the row stored for C
\* is still in the price table.
C19_Witness ==
    /\ pc = "done"
    /\ "C" \in info_before /\ "C" \notin stock_info
    /\ "stock_prices" \in wrote
    /\ [code |-> "C", date |-> Ymd(1), close |-> 1] \in stock_prices

\* The positions of the run whose loop body has ended.
Processed == { k \in DOMAIN outcome : outcome[k].counted /= "none" }

\* C18: in a run of download_all_stocks_data over N instruments, the
\* positions after which the run has paused are exactly the processed
\* positions i with i mod 5 = 0 and i < N: one pause per five instruments,
\* whatever their outcomes, and none after the last instrument.
C18_BatchPauses ==
    UpdaterRun
    => pauses = { k \in Processed : k % 5 = 0 /\ k < Len(stock_list) }

\* C18 witness: a finished run over 10 instruments, the price fetch of one
\* of the first five having exhausted its retries, paused after the 5th
\* instrument only.
C18_Witness ==
    /\ pc = "done" /\ mode = "full"
    /\ Len(stock_list) = 10
    /\ Processed = 1..10
    /\ \E k \in 1..5 : outcome[k].price = "exhausted"
    /\ pauses = {5}

\* The pairs a run has added to the concept table for a code.
Added(code) == { p \in stock_concepts \ concepts_before : p[1] = code }

\* C20: the frame one attempt of fetch_stock_concepts returns holds at
\* most 10 pairs, each made of a name the provider returned, and the run
\* stores at most 10 pairs for the instrument, each of them a pair of the
\* frame fetched for it.
C20_ConceptCap ==
    /\ Cardinality(concept_fetch.df) <= 10
    /\ \A p \in concept_fetch.df : p[2] \in concept_fetch.names
    /\ \A code \in Range(stock_list) : Cardinality(Added(code)) <= 10
    /\ (pc = "done" /\ Len(stock_list) = 1)
         => Added(stock_list[1]) \subseteq concept_fetch.df

\* C20 witness: the provider returned more than 10 distinct names for the
\* instrument, and the run stored 10 of them.
C20_Witness ==
    /\ pc = "done"
    /\ Cardinality(concept_fetch.names) > 10
    /\ Cardinality(concept_fetch.df) = 10
    /\ Added("A") = concept_fetch.df

\* C16: when a full download has been run twice with the provider giving
\* the same answers, the instrument, price and concept tables are as the
\* first run left them.
C16_FullDownloadIdempotent ==
    (pc = "done" /\ runs = 2 /\ mode = "full")
    => /\ stock_info = once.stock_info
       /\ stock_prices = once.stock_prices
       /\ stock_concepts = once.stock_concepts

\* C21: an empty answer of the provider is not a failure.  An attempt of
\* fetch_stock_prices fails only when the provider raised; after an empty
\* price result the concept step is carried out; an instrument whose
\* concept result is empty, its price step not having failed, is counted as
\* a success; and while every result so far is empty, the table is as the
\* run found it and the run has not written to it.
C21_EmptyIsNotFailure ==
    /\ call.op = "fetch_stock_prices"
         => \A n \in 1..Len(call.results) :
              ~call.provider_raised[n] => call.results[n] = "ok"
    /\ \A k \in DOMAIN outcome :
         /\ outcome[k].price = "empty" => outcome[k].concept /= "skipped"
         /\ (outcome[k].price \in {"empty", "saved", "noop"}
               /\ outcome[k].concept = "empty") => outcome[k].counted = "success"
    /\ (pc /= "idle"
         /\ \A k \in DOMAIN outcome : outcome[k].price \in {"none", "empty", "noop"})
         => (stock_prices = prices_before /\ "stock_prices" \notin wrote)
    /\ (pc /= "idle"
         /\ \A k \in DOMAIN outcome : outcome[k].concept \in {"none", "empty", "skipped"})
         => (stock_concepts = concepts_before /\ "stock_concepts" \notin wrote)

\* C21 witness: the provider had no price row and no concept row for the
\* first instrument; nothing was written, the instrument counts as a
\* success, and the loop is on the second instrument.
C21_Witness ==
    /\ Len(outcome) >= 2
    /\ i = 2
    /\ outcome[1] = [price |-> "empty", concept |-> "empty", counted |-> "success"]
    /\ success_count = 1 /\ failed_count = 0
    /\ wrote = {"stock_info"}

\* C22: whatever the enrichment feeds answer, the catalog fetch_stock_list
\* returns holds one row for each code of the primary feed: no code is
\* listed twice in the catalog the run loops over.
C22_OneRowPerCode ==
    (list_fetch = "rows" /\ mode /= "main") => ~HasDuplicates(stock_list)

\* C26: save_stock_prices raises on no batch that fetch_stock_prices
\* returned, whichever optional columns the batch carries.
C26_EveryBatchPersists ==
    \A k \in DOMAIN outcome : outcome[k].price /= "save_raised"

\* C27: when a run has finished its loop, every instrument has been counted
\* exactly once, as a success or as a failure, and the two counters are the
\* numbers of instruments so counted: together, the number of instruments
\* of the run.
C27_CountersAddUp ==
    (pc = "done" /\ outcome /= << >>)
    => /\ success_count + failed_count = Len(stock_list)
       /\ success_count
            = Cardinality({ k \in DOMAIN outcome : outcome[k].counted = "success" })
       /\ failed_count
            = Cardinality({ k \in DOMAIN outcome : outcome[k].counted = "failed" })

\* C27 witness: a finished run of main over two instruments, one counted
\* as failed and one as a success.
C27_Witness ==
    /\ pc = "done" /\ mode = "main"
    /\ Len(stock_list) = 2
    /\ success_count = 1 /\ failed_count = 1

\* The price rows a table holds for a code.
RowsOf(table, code) == { r \in table : r.code = code }

\* C28: an instrument whose price fetch exhausted its retries, or whose
\* save_stock_prices raised, has the price rows the run found, and so the
\* watermark the run found: the window an incremental run plans from it is
\* the one it would have planned before.
C28_FailedPriceStepKeepsRows ==
    \A k \in DOMAIN outcome :
      outcome[k].price \in {"exhausted", "save_raised"}
      => /\ RowsOf(stock_prices, stock_list[k]) = RowsOf(prices_before, stock_list[k])
         /\ StoredWatermark(stock_prices, stock_list[k])
              = StoredWatermark(prices_before, stock_list[k])

\* C28 witness: the run of day 2 found a row of day 1 for an instrument;
\* its price fetch exhausted its retries, or the save of the rows fetched
\* raised, and the watermark of the instrument is still day 1.
C28_Witness ==
    /\ today = 2
    /\ \E k \in DOMAIN outcome :
         /\ outcome[k].price \in {"exhausted", "save_raised"}
         /\ StoredWatermark(prices_before, stock_list[k]) = Ymd(1)
         /\ StoredWatermark(stock_prices, stock_list[k]) = Ymd(1)
         /\ outcome[k].concept /= "none"

\* The loop of the run deals with one instrument at a time, in catalog
\* order: the positions before the one in progress have ended, those after
\* it are untouched, and only codes up to it have had a price request or
\* a change of their price rows.
OneAtATime ==
    \A k \in DOMAIN outcome :
      /\ k < i => outcome[k].counted /= "none"
      /\ k > i => /\ outcome[k] = NoOutcome
                  /\ stock_list[k] \notin { stock_list[j] : j \in 1..i }
                       => /\ IssuedFor(stock_list[k]) = {}
                          /\ RowsOf(stock_prices, stock_list[k])
                               = RowsOf(prices_before, stock_list[k])

\* C24: a run whose catalog was saved processes the instruments of the
\* catalog one at a time in catalog order, and when it has finished it has
\* processed each of them.
C24_CatalogOrder ==
    /\ OneAtATime
    /\ (pc = "done" /\ persisted) => Processed = 1..Len(stock_list)

\* C23: in the catalog fetch_stock_list returns, every row carries a code
\* of the primary feed; its name is the primary feed's name when that is
\* present, and otherwise the name of an enrichment row of the same code
\* (missing when there is no such row).
C23_PrimaryNamePreferred ==
    \A k \in 1..Len(merged.result) :
      LET r == merged.result[k]
      IN  \E j \in 1..Len(merged.primary) :
            LET p == merged.primary[j]
                e == { merged.info[n].name :
                         n \in { x \in 1..Len(merged.info) : merged.info[x].code = r.code } }
            IN  /\ p.code = r.code
                /\ p.name /= Missing => r.name = p.name
                /\ p.name = Missing => r.name \in (IF e = {} THEN {Missing} ELSE e)

\* C23 witness: A has a name in both feeds and keeps the primary one; B
\* has no primary name and takes the enrichment one.
C23_Witness ==
    /\ merged.primary = << [code |-> "A", name |-> "p"], [code |-> "B", name |-> Missing] >>
    /\ merged.info = << [code |-> "A", name |-> "e"], [code |-> "B", name |-> "e"] >>
    /\ merged.result = << [code |-> "A", name |-> "p"], [code |-> "B", name |-> "e"] >>

\* C25: the schedule driver invokes update_daily_data at most once per
\* daily trigger, and only when the previous invocation has returned: the
\* triggers served are update times that have come, each later than the
\* one before; every run was started by the driver; and a run is in
\* progress only inside the one invocation that has not returned.
C25_OneRunPerTrigger ==
    LET s == driver.served
    IN  /\ \A k \in 1..Len(s) :
             /\ s[k] % PollsPerDay = driver.at_time
             /\ s[k] <= driver.clock
        /\ \A k \in 1..(Len(s) - 1) : s[k] < s[k + 1]
        /\ runs = Len(s)
        /\ driver.returned = IF driver.at = "job" THEN Len(s) - 1 ELSE Len(s)
        /\ driver.at /= "job" => pc \in {"idle", "done"}

\* C25 witness: the driver has served two daily triggers, a day apart, and
\* both invocations have returned.
C25_Witness ==
    /\ driver.at = "sleep"
    /\ Len(driver.served) = 2
    /\ driver.served[2] = driver.served[1] + PollsPerDay
    /\ driver.returned = 2
    /\ result = "False"

====
